---------------------------- MODULE Spec2Model ----------------------------
(***************************************************************************)
(* A model of src/usb_skel/usbskeleton.c, the GreenTouch touch foil        *)
(* driver: the buffered transfer channel (skel_open, skel_release,         *)
(* skel_read, skel_write, skel_flush and the two completion callbacks),    *)
(* session teardown and reset (skel_disconnect, skel_draw_down,            *)
(* skel_suspend, skel_pre_reset, skel_post_reset) and the acquisition      *)
(* loop (skel_poll) with normalize: the calibration, the scores of a       *)
(* frame and its contacts.                                                 *)
(*                                                                         *)
(* Atomicity.  A step of the model is the code between two accesses to     *)
(* state another thread can touch at that point.  A critical section of    *)
(* err_lock (a spinlock, never held across a wait) is one step.  The two   *)
(* unlocked statements of skel_read that read and then clear dev->errors   *)
(* are two steps.  io_mutex and limit_sem are modelled with the semantics  *)
(* of the kernel's mutex and counting semaphore (up() hands the slot to    *)
(* the first waiter).  An interruptible wait can end with a signal.        *)
(***************************************************************************)
EXTENDS Integers, Sequences, FiniteSets, TLC

(***************************************************************************)
(* Program constants.                                                      *)
(***************************************************************************)
WRITES_IN_FLIGHT == 8
MAX_CONTACTS == 10
SIGMA_THRESHOLD == 275
BLOB_LINE_OFFSET == 0
UCHAR_MAX == 255     \* largest "unsigned char" of current_frame
SIGMA_COMPUTE_FRAME == 255
AVERAGE_COMPUTE_FRAME == 255
CALIBRATE_EVERY == 7000
BULK_IN_SIZE == 4160
ROWS == 64           \* "for(i=0;i<64;i++)", "for(j=0;j<64;j++)"
MATRIX == 4096       \* "index%4096"
UP_LEFT == 65        \* "index-(65)"
MAX_TRANSFER == 3584

\* errno values the driver tests for or returns
ENOENT == -2
EINTR == -4
EIO == -5
EAGAIN == -11
ENOMEM == -12
EFAULT == -14
ENODEV == -19
EPIPE == -32
EPROTO == -71
ECONNRESET == -104
ESHUTDOWN == -108
ETIMEDOUT == -110
ERESTARTSYS == -512

(***************************************************************************)
(* Bounds of the model.                                                    *)
(***************************************************************************)
MaxCount == 2        \* largest byte count a read or write call asks for
MaxCalls == 3        \* read, write and flush calls the users make in all
ShareCalls == 2      \* calls the users make beside the acquisition loop
MaxCtlOps == 1       \* resets and suspends before the device is unplugged
MaxCycles == 2       \* recalibrations the acquisition loop is followed through
MaxSample == 4       \* largest raw sample the panel delivers for a cell
MaxTicks == 2        \* steady-state frames whose cells are followed one by one
Side == 4            \* rows and columns of the matrix whose scores are
                     \* followed (the panel's is 64 x 64)

Procs == {"p1", "p2"}
NoOwner == "none"
Ctl == "ctl"
Irq == "irq"         \* the context the completion callbacks run in
Threads == Procs \cup {Ctl, Irq}

\* "sync/async unlink faults aren't errors"
CancelStatus == {ENOENT, ECONNRESET, ESHUTDOWN}
\* statuses the transport completes a transfer with on its own: success, a
\* stall, a protocol fault, the host controller shutting down.  A transfer
\* the driver kills (usb_kill_urb, usb_kill_anchored_urbs) completes with
\* -ENOENT; the driver never unlinks one asynchronously (-ECONNRESET).
TransportStatus == {0, EPIPE, EPROTO, ESHUTDOWN}
SubmitError == {ENOMEM, ESHUTDOWN}

\* no call has returned yet
NoCall == [call |-> "none", ret |-> 0, late |-> FALSE]

Min(a, b) == IF a < b THEN a ELSE b

\* the indices of a frame buffer: the matrix and its prefix of one row
Buffer == 0..(Side * Side + Side - 1)
\* a zeroed frame buffer (kzalloc)
NoScores == [index \in Buffer |-> 0]

\* a zeroed struct touch_contact (kzalloc)
NoContact == [x |-> 0, y |-> 0, h |-> 0, w |-> 0]

VARIABLES
  kref,              \* dev->kref
  deleted,           \* skel_delete has freed the session
  interface,         \* dev->interface is not NULL
  intfdata,          \* usb_get_intfdata(interface) is not NULL
  limit_sem,         \* count of dev->limit_sem
  sem_wait,          \* wait list of dev->limit_sem, first waiter first
  io_mutex,          \* owner of dev->io_mutex
  errors,            \* dev->errors
  ongoing_read,      \* dev->ongoing_read
  bulk_in_filled,    \* dev->bulk_in_filled
  bulk_in_copied,    \* dev->bulk_in_copied
  read_urb,          \* submissions of dev->bulk_in_urb not yet completed
  read_urb_len,      \* transfer_buffer_length of dev->bulk_in_urb
  writes,            \* write urbs anchored on dev->submitted, in flight
  registered,        \* the polled input device is registered
  poll_busy,         \* skel_poll is inside usb_bulk_msg
  frame_index,       \* dev->frame_index
  sigma_normalized,  \* dev->sigma_normalized
  average_computed,  \* dev->average_computed
  cycle,             \* recalibrations so far
  average_frame,     \* dev->average_frame[index] of a cell; the cells are
                     \* calibrated alike, over the same samples
  sigma_frame,       \* dev->sigma_frame[index] of a cell
  phase_sum,         \* raw samples of the cell summed over the averaging
                     \* phase in progress
  phase_frames,      \* frames of the averaging phase in progress
  touch_contacts,    \* dev->touch_contacts; slot MAX_CONTACTS is the memory
                     \* that follows the array
  contact_index,     \* normalize's local contact_index
  scanning,          \* normalize is inside its loop over the cells
  cells,             \* triggered cells <<i, j>> the tick has visited so far
  opened,            \* slots in which the tick opened a contact, in order
  grown,             \* slots whose contact the tick has grown
  reported,          \* the contact records normalize printed in the tick
  sink,              \* what the tick has sent to the input device
  score_frame,       \* dev->score_frame
  score_frame_adjacent,       \* dev->score_frame_adjacent
  score_last_frame_adjacent,  \* dev->score_last_frame_adjacent
  smoothed,          \* per index, the score the last frame compared with
                     \* the threshold
  raised,            \* cells whose raw sample the last frame had raised
  underrun,          \* normalize wrote below score_frame_adjacent[0]
  cell,              \* <<i, j>> of normalize's loops over the panel's matrix
  at,                \* per thread, the lock operation or statement of its
                     \* handler it is about to execute
  err_lock,          \* holder of dev->err_lock
  pc,                \* where each user process is
  fopen,             \* the process holds an open file on the device
  nonblock,          \* O_NONBLOCK of the call
  count,             \* count of the call
  rv,                \* skel_read's local rv
  last,              \* the call that returned last: which, what it returned,
                     \* and whether it was entered with dev->interface NULL
  late,              \* the call was entered with dev->interface NULL
  budget,            \* calls the users may still enter (-1: any number)
  ctl,               \* where the USB core's thread (reset, suspend, unplug) is
  ctl_ops,           \* resets and suspends so far
  held_rep,          \* readers whose rv holds a fault another call returned
  held_old,          \* readers whose rv holds a fault since overwritten
  uaf                \* a callback ran on the freed session

sessVars == <<kref, deleted, interface, intfdata>>
semVars == <<limit_sem, sem_wait>>
bufVars == <<bulk_in_filled, bulk_in_copied>>
urbVars == <<read_urb, read_urb_len>>
pollVars == <<registered, poll_busy>>
cellVars == <<average_frame, sigma_frame, phase_sum, phase_frames>>
blobVars == <<touch_contacts, contact_index, scanning, cells, opened, grown,
              reported, sink>>
scoreVars == <<score_frame, score_frame_adjacent, score_last_frame_adjacent,
               smoothed, raised, underrun, cell>>
lockVars == <<at, err_lock>>
calVars == <<frame_index, sigma_normalized, average_computed, cycle, cellVars,
             blobVars, scoreVars, lockVars>>
userVars == <<nonblock, count, late, budget>>
ctlVars == <<ctl, ctl_ops>>
ghostVars == <<held_rep, held_old>>

vars == <<kref, deleted, interface, intfdata, limit_sem, sem_wait, io_mutex,
          errors, ongoing_read, bulk_in_filled, bulk_in_copied, read_urb,
          read_urb_len, writes, registered, poll_busy, frame_index,
          sigma_normalized, average_computed, cycle, cellVars, blobVars,
          scoreVars, lockVars, pc, fopen, nonblock,
          count, rv, last, late, budget, ctl, ctl_ops, held_rep,
          held_old, uaf>>

(***************************************************************************)
(* skel_probe: the state of a session that probed successfully.            *)
(***************************************************************************)
Probed ==
  /\ kref = 1
  /\ deleted = FALSE
  /\ interface = TRUE
  /\ intfdata = TRUE
  /\ limit_sem = WRITES_IN_FLIGHT
  /\ sem_wait = <<>>
  /\ io_mutex = NoOwner
  /\ errors = 0
  /\ ongoing_read = FALSE
  /\ bulk_in_filled = 0
  /\ bulk_in_copied = 0
  /\ read_urb = 0
  /\ read_urb_len = 0
  /\ writes = 0
  /\ registered = TRUE
  /\ poll_busy = FALSE
  /\ frame_index = 0
  /\ sigma_normalized = FALSE
  /\ average_computed = FALSE
  /\ cycle = 0
  /\ average_frame = 0
  /\ sigma_frame = 0
  /\ phase_sum = 0
  /\ phase_frames = 0
  /\ touch_contacts = [m \in 0..MAX_CONTACTS |-> NoContact]
  /\ contact_index = 0
  /\ scanning = FALSE
  /\ cells = <<>>
  /\ opened = <<>>
  /\ grown = {}
  /\ reported = <<>>
  /\ sink = <<>>
  /\ score_frame = NoScores
  /\ score_frame_adjacent = NoScores
  /\ score_last_frame_adjacent = NoScores
  /\ smoothed = NoScores
  /\ raised = {}
  /\ underrun = FALSE
  /\ cell = <<0, 0>>
  /\ at = [t \in Threads |-> "idle"]
  /\ err_lock = NoOwner
  /\ pc = [p \in Procs |-> "idle"]
  /\ fopen = [p \in Procs |-> FALSE]
  /\ nonblock = [p \in Procs |-> FALSE]
  /\ count = [p \in Procs |-> 0]
  /\ rv = [p \in Procs |-> 0]
  /\ last = NoCall
  /\ late = [p \in Procs |-> FALSE]
  /\ ctl = "idle"
  /\ ctl_ops = 0
  /\ held_rep = {}
  /\ held_old = {}
  /\ uaf = FALSE

\* the users make at most MaxCalls calls, too few to fill the write gate
Init == Probed /\ budget = MaxCalls


(***************************************************************************)
(* Helpers.                                                                *)
(***************************************************************************)
\* up(&dev->limit_sem): the first waiter, if any, gets the slot and its
\* down_interruptible returns 0; otherwise the count goes up
UpSem == IF sem_wait = <<>> THEN limit_sem + 1 ELSE limit_sem
UpWait == IF sem_wait = <<>> THEN sem_wait ELSE Tail(sem_wait)
UpPc(f) == IF sem_wait = <<>> THEN f ELSE [f EXCEPT ![Head(sem_wait)] = "w_err"]

\* "to preserve notifications about reset"
MapError(e) == IF e = EPIPE THEN EPIPE ELSE EIO

\* the call c of p returns v
Returned(p, c, v) == [call |-> c, ret |-> v, late |-> late[p]]

\* the locals of p's call are gone
Reset(p) ==
  /\ UNCHANGED budget
  /\ rv' = [rv EXCEPT ![p] = 0]
  /\ nonblock' = [nonblock EXCEPT ![p] = FALSE]
  /\ count' = [count EXCEPT ![p] = 0]
  /\ late' = [late EXCEPT ![p] = FALSE]

Finish(p, c, v) ==
  /\ last' = Returned(p, c, v)
  /\ Reset(p)

\* p enters a call
Enter(p, nb, n) ==
  /\ nonblock' = [nonblock EXCEPT ![p] = nb]
  /\ count' = [count EXCEPT ![p] = n]
  /\ late' = [late EXCEPT ![p] = ~interface]
  /\ budget # 0
  /\ budget' = IF budget > 0 THEN budget - 1 ELSE budget
  /\ UNCHANGED <<rv, last>>

\* p enters call c and returns v at once
EnterReturn(p, c, v) ==
  /\ last' = [call |-> c, ret |-> v, late |-> ~interface]
  /\ budget # 0
  /\ budget' = IF budget > 0 THEN budget - 1 ELSE budget
  /\ UNCHANGED <<nonblock, count, late, rv>>

\* a test of dev->interface that never sees the disconnect
GoneUnseen == FALSE

\* "if (!dev->interface)": disconnect() was called
Gone == ~interface

\* readers between skel_read's "rv = dev->errors" and "dev->errors = 0"
Holding == {p \in Procs : pc[p] = "r_clr"}

\* dev->errors is assigned a status: the fault a reader holds is overwritten
Recorded == held_old' = held_old \cup Holding

\* a call other than a holding reader clears and returns dev->errors
Reported == held_rep' = held_rep \cup (Holding \ held_old)

(***************************************************************************)
(* skel_read_bulk_callback, for a completion with status st and            *)
(* actual_length len.  Sets read_urb, errors, bulk_in_filled,              *)
(* ongoing_read, held_old, uaf.                                            *)
(***************************************************************************)
ReadCallbackError(st) == IF st # 0 THEN st ELSE errors

skel_read_bulk_callback(st, len) ==
  /\ read_urb > 0
  /\ read_urb' = read_urb - 1
  /\ IF deleted
     THEN /\ uaf' = TRUE
          /\ UNCHANGED <<errors, bulk_in_filled, ongoing_read, held_old>>
     ELSE /\ errors' = ReadCallbackError(st)
          /\ bulk_in_filled' = IF st # 0 THEN bulk_in_filled ELSE len
          /\ ongoing_read' = FALSE
          /\ IF st # 0 THEN Recorded ELSE UNCHANGED held_old
          /\ UNCHANGED uaf

(***************************************************************************)
(* skel_write_bulk_callback, for a completion with status st; f is pc as   *)
(* the step that delivers the completion leaves it.  Sets writes, errors,  *)
(* limit_sem, sem_wait, pc, held_old, uaf.                                 *)
(***************************************************************************)
WriteCallbackError(st) == IF st # 0 THEN st ELSE errors

skel_write_bulk_callback(st, f) ==
  /\ writes > 0
  /\ writes' = writes - 1
  /\ IF deleted
     THEN /\ uaf' = TRUE
          /\ pc' = f
          /\ UNCHANGED <<errors, limit_sem, sem_wait, held_old>>
     ELSE /\ errors' = WriteCallbackError(st)
          /\ IF st # 0 THEN Recorded ELSE UNCHANGED held_old
          /\ limit_sem' = UpSem
          /\ sem_wait' = UpWait
          /\ pc' = UpPc(f)
          /\ UNCHANGED uaf

\* the transport completes the read transfer
ReadComplete ==
  \E st \in TransportStatus : \E len \in 0..read_urb_len :
    /\ (st # 0 => len = 0)
    /\ skel_read_bulk_callback(st, len)
    /\ UNCHANGED <<sessVars, semVars, io_mutex, bulk_in_copied, read_urb_len,
                   writes, pollVars, calVars, pc, fopen, userVars, rv, last,
                   ctlVars, held_rep>>

\* the transport completes a write transfer
WriteComplete ==
  \E st \in TransportStatus :
    /\ skel_write_bulk_callback(st, pc)
    /\ UNCHANGED <<sessVars, io_mutex, ongoing_read, bufVars, urbVars,
                   pollVars, calVars, fopen, userVars, rv, last, ctlVars,
                   held_rep>>

(***************************************************************************)
(* skel_open and skel_release.  The USB core serialises open against the   *)
(* unbinding of the interface.  release runs when the last call on the     *)
(* file has returned.  close() calls skel_flush before that, while calls   *)
(* of other threads on the file may still run: skel_flush is a call of its *)
(* own here, and a close whose flush met no transfer and no error is a     *)
(* skel_release alone.                                                     *)
(***************************************************************************)
\* kref_put drops the last reference and calls skel_delete
LastPut == kref = 1

skel_open(p) ==
  /\ pc[p] = "idle" /\ ~fopen[p]
  /\ IF intfdata
     THEN /\ kref' = kref + 1
          /\ fopen' = [fopen EXCEPT ![p] = TRUE]
     ELSE UNCHANGED <<kref, fopen>>
  /\ UNCHANGED <<deleted, interface, intfdata, semVars, io_mutex, errors,
                 ongoing_read, bufVars, urbVars, writes, pollVars, calVars,
                 pc, userVars, rv, last, ctlVars, ghostVars, uaf>>

skel_release(p) ==
  /\ pc[p] = "idle" /\ fopen[p]
  /\ io_mutex = NoOwner
  /\ fopen' = [fopen EXCEPT ![p] = FALSE]
  /\ kref' = kref - 1
  /\ deleted' = LastPut
  /\ UNCHANGED <<interface, intfdata, semVars, io_mutex, errors,
                 ongoing_read, bufVars, urbVars, writes, pollVars, calVars,
                 pc, userVars, rv, last, ctlVars, ghostVars, uaf>>


(***************************************************************************)
(* skel_do_read_io(dev, len); r is what usb_submit_urb returns.  Sets      *)
(* ongoing_read, bulk_in_filled, bulk_in_copied, read_urb, read_urb_len.   *)
(***************************************************************************)
skel_do_read_io(len, r) ==
  /\ read_urb_len' = Min(BULK_IN_SIZE, len)
  /\ bulk_in_filled' = 0
  /\ bulk_in_copied' = 0
  /\ ongoing_read' = (r = 0)
  /\ read_urb' = IF r = 0 THEN read_urb + 1 ELSE read_urb

\* what skel_do_read_io returns
ReadIoResult(r) == IF r = 0 THEN 0 ELSE IF r = ENOMEM THEN ENOMEM ELSE EIO

(***************************************************************************)
(* skel_read.                                                              *)
(***************************************************************************)
\* entry: "if (!dev->bulk_in_urb || !count) return 0"
skel_read(p, nb, n) ==
  /\ pc[p] = "idle" /\ fopen[p]
  /\ IF n = 0
     THEN /\ EnterReturn(p, "read", 0)
          /\ UNCHANGED pc
     ELSE /\ Enter(p, nb, n)
          /\ pc' = [pc EXCEPT ![p] = "r_lock"]
  /\ UNCHANGED <<sessVars, semVars, io_mutex, errors, ongoing_read, bufVars,
                 urbVars, writes, pollVars, calVars, fopen, ctlVars,
                 ghostVars, uaf>>

\* mutex_lock_interruptible(&dev->io_mutex), then the test of dev->interface
skel_read_lock(p) ==
  /\ pc[p] = "r_lock"
  /\ io_mutex = NoOwner
  /\ IF Gone
     THEN /\ pc' = [pc EXCEPT ![p] = "idle"]
          /\ Finish(p, "read", ENODEV)
          /\ UNCHANGED io_mutex
     ELSE /\ io_mutex' = p
          /\ pc' = [pc EXCEPT ![p] = "r_retry"]
          /\ UNCHANGED <<userVars, rv, last>>
  /\ UNCHANGED <<sessVars, semVars, errors, ongoing_read, bufVars, urbVars,
                 writes, pollVars, calVars, fopen, ctlVars, ghostVars, uaf>>

\* a signal ends the wait for io_mutex
skel_read_lock_intr(p) ==
  /\ pc[p] = "r_lock"
  /\ io_mutex # NoOwner
  /\ pc' = [pc EXCEPT ![p] = "idle"]
  /\ Finish(p, "read", EINTR)
  /\ UNCHANGED <<sessVars, semVars, io_mutex, errors, ongoing_read, bufVars,
                 urbVars, writes, pollVars, calVars, fopen, ctlVars,
                 ghostVars, uaf>>

\* a retry that does not look at dev->ongoing_read
ReadRetryBlind(p) == "r_err"

\* where the read goes after "ongoing_io = dev->ongoing_read"
ReadRetryTarget(p) ==
  IF ongoing_read THEN (IF nonblock[p] THEN "idle" ELSE "r_wait") ELSE "r_err"

\* retry: the test of dev->ongoing_read under err_lock
skel_read_retry(p) ==
  /\ pc[p] = "r_retry"
  /\ pc' = [pc EXCEPT ![p] = ReadRetryTarget(p)]
  /\ IF ReadRetryTarget(p) = "idle"
     THEN /\ Finish(p, "read", EAGAIN)
          /\ io_mutex' = NoOwner
     ELSE UNCHANGED <<userVars, rv, last, io_mutex>>
  /\ UNCHANGED <<sessVars, semVars, errors, ongoing_read, bufVars, urbVars,
                 writes, pollVars, calVars, fopen, ctlVars, ghostVars, uaf>>

\* wait_event_interruptible(dev->bulk_in_wait, !dev->ongoing_read) returns 0
skel_read_wait(p) ==
  /\ pc[p] = "r_wait"
  /\ ~ongoing_read
  /\ pc' = [pc EXCEPT ![p] = "r_err"]
  /\ UNCHANGED <<sessVars, semVars, io_mutex, errors, ongoing_read, bufVars,
                 urbVars, writes, pollVars, calVars, fopen, userVars, rv, last,
                 ctlVars, ghostVars, uaf>>

\* a signal ends the wait for the transfer
skel_read_wait_intr(p) ==
  /\ pc[p] = "r_wait"
  /\ ongoing_read
  /\ pc' = [pc EXCEPT ![p] = "idle"]
  /\ Finish(p, "read", ERESTARTSYS)
  /\ io_mutex' = NoOwner
  /\ UNCHANGED <<sessVars, semVars, errors, ongoing_read, bufVars, urbVars,
                 writes, pollVars, calVars, fopen, ctlVars, ghostVars, uaf>>

\* "rv = dev->errors", read without err_lock
skel_read_errors(p) ==
  /\ pc[p] = "r_err"
  /\ rv' = [rv EXCEPT ![p] = errors]
  /\ pc' = [pc EXCEPT ![p] = IF errors < 0 THEN "r_clr" ELSE "r_buf"]
  /\ UNCHANGED <<sessVars, semVars, io_mutex, errors, ongoing_read, bufVars,
                 urbVars, writes, pollVars, calVars, fopen, userVars, last,
                 ctlVars, ghostVars, uaf>>

\* "dev->errors = 0", written without err_lock, and the return of the error
skel_read_clear(p) ==
  /\ pc[p] = "r_clr"
  /\ errors' = 0
  /\ held_rep' = held_rep \ {p}
  /\ held_old' = held_old \ {p}
  /\ pc' = [pc EXCEPT ![p] = "idle"]
  /\ Finish(p, "read", MapError(rv[p]))
  /\ io_mutex' = NoOwner
  /\ UNCHANGED <<sessVars, semVars, ongoing_read, bufVars, urbVars, writes,
                 pollVars, calVars, fopen, ctlVars, uaf>>

\* the buffer: copy what is there, or start a transfer
skel_read_buffer(p) ==
  /\ pc[p] = "r_buf"
  /\ LET available == bulk_in_filled - bulk_in_copied
         chunk == Min(available, count[p])
     IN IF bulk_in_filled = 0 \/ available = 0
        THEN \* nothing to deliver: skel_do_read_io(dev, count)
          \E r \in {0} \cup SubmitError :
            /\ skel_do_read_io(count[p], r)
            /\ IF r = 0
               THEN /\ pc' = [pc EXCEPT ![p] = "r_retry"]
                    /\ UNCHANGED <<userVars, rv, last, io_mutex>>
               ELSE /\ pc' = [pc EXCEPT ![p] = "idle"]
                    /\ Finish(p, "read", ReadIoResult(r))
                    /\ io_mutex' = NoOwner
        ELSE \* data is available: copy_to_user faults or copies chunk
          /\ \E v \in {EFAULT, chunk} :
               /\ pc' = [pc EXCEPT ![p] = "idle"]
               /\ Finish(p, "read", v)
               /\ io_mutex' = NoOwner
          /\ IF available < count[p]
             THEN \E r \in {0} \cup SubmitError :
                    skel_do_read_io(count[p] - chunk, r)
             ELSE /\ bulk_in_copied' = bulk_in_copied + chunk
                  /\ UNCHANGED <<bulk_in_filled, ongoing_read, urbVars>>
  /\ UNCHANGED <<sessVars, semVars, errors, writes, pollVars, calVars, fopen,
                 ctlVars, ghostVars, uaf>>


(***************************************************************************)
(* skel_write.                                                             *)
(***************************************************************************)
\* a write abandoned without "up(&dev->limit_sem)"
WriteAbandonKeepsSlot(p, v) ==
  /\ Finish(p, "write", v)
  /\ pc' = [pc EXCEPT ![p] = "idle"]
  /\ UNCHANGED semVars

\* the labels error_unanchor and error: the write is abandoned with v and
\* its slot released
WriteAbandon(p, v) ==
  /\ Finish(p, "write", v)
  /\ limit_sem' = UpSem
  /\ sem_wait' = UpWait
  /\ pc' = UpPc([pc EXCEPT ![p] = "idle"])

\* a gate that never has a slot to give
SlotNeverFree == FALSE

\* down_interruptible and down_trylock take a slot at once when the count
\* of limit_sem is positive
SlotFree == limit_sem > 0

\* entry: the test of count, then down_interruptible or down_trylock
skel_write(p, nb, n) ==
  /\ pc[p] = "idle" /\ fopen[p]
  /\ IF n = 0
     THEN /\ EnterReturn(p, "write", 0)
          /\ UNCHANGED <<pc, semVars>>
     ELSE IF SlotFree
     THEN /\ Enter(p, nb, n)
          /\ limit_sem' = limit_sem - 1
          /\ pc' = [pc EXCEPT ![p] = "w_err"]
          /\ UNCHANGED sem_wait
     ELSE IF nb
     THEN /\ EnterReturn(p, "write", EAGAIN)
          /\ UNCHANGED <<pc, semVars>>
     ELSE /\ Enter(p, nb, n)
          /\ sem_wait' = Append(sem_wait, p)
          /\ pc' = [pc EXCEPT ![p] = "w_wait"]
          /\ UNCHANGED limit_sem
  /\ UNCHANGED <<sessVars, io_mutex, errors, ongoing_read, bufVars, urbVars,
                 writes, pollVars, calVars, fopen, ctlVars, ghostVars, uaf>>

\* a signal ends down_interruptible: the waiter leaves the wait list
skel_write_intr(p) ==
  /\ pc[p] = "w_wait"
  /\ sem_wait' = SelectSeq(sem_wait, LAMBDA q : q # p)
  /\ pc' = [pc EXCEPT ![p] = "idle"]
  /\ Finish(p, "write", ERESTARTSYS)
  /\ UNCHANGED <<sessVars, limit_sem, io_mutex, errors, ongoing_read, bufVars,
                 urbVars, writes, pollVars, calVars, fopen, ctlVars,
                 ghostVars, uaf>>

\* the pending error under err_lock, then usb_alloc_urb, usb_alloc_coherent
\* and copy_from_user, which touch nothing shared
skel_write_errors(p) ==
  /\ pc[p] = "w_err"
  /\ IF errors < 0
     THEN /\ errors' = 0
          /\ Reported
          /\ WriteAbandon(p, MapError(errors))
     ELSE /\ \E f \in {0, ENOMEM, EFAULT} :
               IF f = 0
               THEN /\ pc' = [pc EXCEPT ![p] = "w_lock"]
                    /\ UNCHANGED <<semVars, userVars, rv, last>>
               ELSE WriteAbandon(p, f)
          /\ UNCHANGED <<errors, held_rep>>
  /\ UNCHANGED <<sessVars, io_mutex, ongoing_read, bufVars, urbVars, writes,
                 pollVars, calVars, fopen, ctlVars, held_old, uaf>>

\* mutex_lock(&dev->io_mutex), the test of dev->interface, usb_submit_urb
\* and mutex_unlock
skel_write_submit(p) ==
  /\ pc[p] = "w_lock"
  /\ io_mutex = NoOwner
  /\ IF Gone
     THEN /\ WriteAbandon(p, ENODEV)
          /\ UNCHANGED writes
     ELSE \E r \in {0} \cup SubmitError :
            IF r = 0
            THEN /\ writes' = writes + 1
                 /\ pc' = [pc EXCEPT ![p] = "idle"]
                 /\ Finish(p, "write", Min(count[p], MAX_TRANSFER))
                 /\ UNCHANGED semVars
            ELSE /\ WriteAbandon(p, r)
                 /\ UNCHANGED writes
  /\ UNCHANGED <<sessVars, io_mutex, errors, ongoing_read, bufVars, urbVars,
                 pollVars, calVars, fopen, ctlVars, ghostVars, uaf>>

(***************************************************************************)
(* skel_draw_down.  usb_wait_anchor_empty_timeout waits for the write      *)
(* transfers; when it times out usb_kill_anchored_urbs kills them one by   *)
(* one, and each killed transfer completes with -ENOENT.  Then             *)
(* usb_kill_urb(dev->bulk_in_urb) does the same for the read transfer.     *)
(***************************************************************************)
\* sets what skel_write_bulk_callback sets
DrawDownKill(f) == skel_write_bulk_callback(ENOENT, f)

\* sets what skel_read_bulk_callback sets
DrawDownRead ==
  /\ writes = 0
  /\ IF read_urb > 0
     THEN skel_read_bulk_callback(ENOENT, 0)
     ELSE UNCHANGED <<read_urb, errors, bulk_in_filled, ongoing_read,
                      held_old, uaf>>

(***************************************************************************)
(* skel_flush.                                                             *)
(***************************************************************************)
skel_flush(p) ==
  /\ pc[p] = "idle" /\ fopen[p]
  /\ io_mutex = NoOwner
  /\ io_mutex' = p
  /\ Enter(p, FALSE, 0)
  /\ pc' = [pc EXCEPT ![p] = "f_drain"]
  /\ UNCHANGED <<sessVars, semVars, errors, ongoing_read, bufVars, urbVars,
                 writes, pollVars, calVars, fopen, ctlVars, ghostVars, uaf>>

skel_flush_kill(p) ==
  /\ pc[p] = "f_drain"
  /\ DrawDownKill(pc)
  /\ UNCHANGED <<sessVars, io_mutex, ongoing_read, bufVars, urbVars,
                 pollVars, calVars, fopen, userVars, rv, last, ctlVars,
                 held_rep>>

skel_flush_drained(p) ==
  /\ pc[p] = "f_drain"
  /\ DrawDownRead
  /\ pc' = [pc EXCEPT ![p] = "f_errs"]
  /\ UNCHANGED <<sessVars, semVars, io_mutex, bulk_in_copied, read_urb_len,
                 writes, pollVars, calVars, fopen, userVars, rv, last,
                 ctlVars, held_rep>>

\* "read out errors, leave subsequent opens a clean slate"
skel_flush_errors(p) ==
  /\ pc[p] = "f_errs"
  /\ errors' = 0
  /\ IF errors # 0 THEN Reported ELSE UNCHANGED held_rep
  /\ pc' = [pc EXCEPT ![p] = "idle"]
  /\ Finish(p, "flush", IF errors # 0 THEN MapError(errors) ELSE 0)
  /\ io_mutex' = NoOwner
  /\ UNCHANGED <<sessVars, semVars, ongoing_read, bufVars, urbVars, writes,
                 pollVars, calVars, fopen, ctlVars, held_old, uaf>>


(***************************************************************************)
(* The USB core's thread.  It holds the device lock across each of         *)
(* pre_reset .. post_reset, suspend and disconnect, so these never         *)
(* overlap, and disconnect is the last of them.                            *)
(***************************************************************************)
skel_pre_reset ==
  /\ ctl = "idle" /\ ctl_ops < MaxCtlOps
  /\ io_mutex = NoOwner
  /\ io_mutex' = Ctl
  /\ ctl' = "pre_drain"
  /\ ctl_ops' = ctl_ops + 1
  /\ UNCHANGED <<sessVars, semVars, errors, ongoing_read, bufVars, urbVars,
                 writes, pollVars, calVars, pc, fopen, userVars, rv, last,
                 ghostVars, uaf>>

skel_pre_reset_kill ==
  /\ ctl = "pre_drain"
  /\ DrawDownKill(pc)
  /\ UNCHANGED <<sessVars, io_mutex, ongoing_read, bufVars, urbVars,
                 pollVars, calVars, fopen, userVars, rv, last, ctlVars,
                 held_rep>>

skel_pre_reset_drained ==
  /\ ctl = "pre_drain"
  /\ DrawDownRead
  /\ ctl' = "in_reset"
  /\ UNCHANGED <<sessVars, semVars, io_mutex, bulk_in_copied, read_urb_len,
                 writes, pollVars, calVars, pc, fopen, userVars, rv, last,
                 ctl_ops, held_rep>>

\* "we are sure no URBs are active - no locking needed"
skel_post_reset ==
  /\ ctl = "in_reset"
  /\ errors' = EPIPE
  /\ Recorded
  /\ io_mutex' = NoOwner
  /\ ctl' = "idle"
  /\ UNCHANGED <<sessVars, semVars, ongoing_read, bufVars, urbVars, writes,
                 pollVars, calVars, pc, fopen, userVars, rv, last, ctl_ops,
                 held_rep, uaf>>

skel_suspend ==
  /\ ctl = "idle" /\ ctl_ops < MaxCtlOps
  /\ ctl' = "sus_drain"
  /\ ctl_ops' = ctl_ops + 1
  /\ UNCHANGED <<sessVars, semVars, io_mutex, errors, ongoing_read, bufVars,
                 urbVars, writes, pollVars, calVars, pc, fopen, userVars, rv,
                 last,
                 ghostVars, uaf>>

skel_suspend_kill ==
  /\ ctl = "sus_drain"
  /\ DrawDownKill(pc)
  /\ UNCHANGED <<sessVars, io_mutex, ongoing_read, bufVars, urbVars,
                 pollVars, calVars, fopen, userVars, rv, last, ctlVars,
                 held_rep>>

skel_suspend_drained ==
  /\ ctl = "sus_drain"
  /\ DrawDownRead
  /\ ctl' = "idle"
  /\ UNCHANGED <<sessVars, semVars, io_mutex, bulk_in_copied, read_urb_len,
                 writes, pollVars, calVars, pc, fopen, userVars, rv, last,
                 ctl_ops, held_rep>>

\* usb_set_intfdata(interface, NULL) and input_unregister_polled_device,
\* which waits for a running skel_poll to return
skel_disconnect ==
  /\ ctl = "idle"
  /\ ~poll_busy
  /\ intfdata' = FALSE
  /\ registered' = FALSE
  /\ ctl' = "d_lock"
  /\ UNCHANGED <<kref, deleted, interface, semVars, io_mutex, errors,
                 ongoing_read, bufVars, urbVars, writes, poll_busy, calVars,
                 pc, fopen, userVars, rv, last, ctl_ops, ghostVars, uaf>>

\* "prevent more I/O from starting"
skel_disconnect_lock ==
  /\ ctl = "d_lock"
  /\ io_mutex = NoOwner
  /\ interface' = FALSE
  /\ ctl' = "d_kill"
  /\ UNCHANGED <<kref, deleted, intfdata, semVars, io_mutex, errors,
                 ongoing_read, bufVars, urbVars, writes, pollVars, calVars,
                 pc, fopen, userVars, rv, last, ctl_ops, ghostVars, uaf>>

\* usb_kill_anchored_urbs(&dev->submitted), one victim
skel_disconnect_kill ==
  /\ ctl = "d_kill"
  /\ DrawDownKill(pc)
  /\ UNCHANGED <<sessVars, io_mutex, ongoing_read, bufVars, urbVars,
                 pollVars, calVars, fopen, userVars, rv, last, ctlVars,
                 held_rep>>

\* the anchor is empty: kref_put(&dev->kref, skel_delete)
skel_disconnect_put ==
  /\ ctl = "d_kill"
  /\ writes = 0
  /\ kref' = kref - 1
  /\ deleted' = LastPut
  /\ ctl' = "gone"
  /\ UNCHANGED <<interface, intfdata, semVars, io_mutex, errors,
                 ongoing_read, bufVars, urbVars, writes, pollVars, calVars,
                 pc, fopen, userVars, rv, last, ctl_ops, ghostVars, uaf>>

(***************************************************************************)
(* skel_poll: usb_bulk_msg, then normalize and the calibration state.      *)
(***************************************************************************)
\* frames processed so far, and the frames the loop is followed through
PollFrames == MaxCycles * (CALIBRATE_EVERY + 1) + 2
Frames == cycle * (CALIBRATE_EVERY + 1) + frame_index

\* the tick starts: usb_bulk_msg is submitted
skel_poll ==
  /\ registered /\ ~poll_busy
  /\ Frames < PollFrames
  /\ poll_busy' = TRUE
  /\ contact_index' = 0
  /\ cells' = <<>>
  /\ opened' = <<>>
  /\ grown' = {}
  /\ reported' = <<>>
  /\ sink' = <<>>
  /\ UNCHANGED <<sessVars, semVars, io_mutex, errors, ongoing_read, bufVars,
                 urbVars, writes, registered, frame_index, sigma_normalized,
                 average_computed, cycle, cellVars, touch_contacts, scanning,
                 scoreVars, lockVars, pc, fopen, userVars, rv, last, ctlVars,
                 ghostVars,
                 uaf>>

\* a recalibration that leaves dev->sigma_normalized alone
PollSigmaKept == IF ~sigma_normalized
                    /\ frame_index = SIGMA_COMPUTE_FRAME + AVERAGE_COMPUTE_FRAME
                 THEN TRUE ELSE sigma_normalized

\* the three tests that follow normalize, and "dev->frame_index++"
PollSigma == IF frame_index > CALIBRATE_EVERY THEN FALSE
             ELSE IF ~sigma_normalized
                     /\ frame_index = SIGMA_COMPUTE_FRAME + AVERAGE_COMPUTE_FRAME
             THEN TRUE ELSE sigma_normalized

PollAverage == IF frame_index > CALIBRATE_EVERY THEN FALSE
               ELSE IF ~average_computed /\ frame_index = AVERAGE_COMPUTE_FRAME
               THEN TRUE ELSE average_computed

PollFrameIndex == (IF frame_index > CALIBRATE_EVERY THEN 0 ELSE frame_index) + 1

\* arithmetic in an accumulator of eight bits
U8(x) == x % 256

\* "unsigned short" arithmetic
U16(x) == x % 65536

\* normalize, stage 1, for one cell: what the frame whose raw sample is
\* current_value leaves in average_frame[index]
NormalizeAverage(current_value) ==
  IF ~average_computed /\ frame_index < AVERAGE_COMPUTE_FRAME
  THEN IF frame_index = 0 THEN current_value
       ELSE U16(average_frame + current_value)
  ELSE IF ~average_computed /\ frame_index = AVERAGE_COMPUTE_FRAME
  THEN average_frame \div AVERAGE_COMPUTE_FRAME
  ELSE average_frame

\* "difference": the distance of the raw sample from the average
Difference(current_value) ==
  IF current_value < average_frame THEN U16(average_frame - current_value)
  ELSE U16(current_value - average_frame)

\* the last frame of stage 2 without "if (sigma_frame[index] < 1)"
SigmaFinalizeUnclamped == sigma_frame \div SIGMA_COMPUTE_FRAME

\* the last frame of stage 2: the division and the clamp
SigmaFinalize ==
  IF sigma_frame \div SIGMA_COMPUTE_FRAME < 1 THEN 1
  ELSE sigma_frame \div SIGMA_COMPUTE_FRAME

\* normalize, stage 2, for one cell: what the frame leaves in
\* sigma_frame[index]
NormalizeSigma(current_value) ==
  IF ~average_computed /\ frame_index <= AVERAGE_COMPUTE_FRAME
  THEN sigma_frame
  ELSE IF ~sigma_normalized
          /\ frame_index < SIGMA_COMPUTE_FRAME + AVERAGE_COMPUTE_FRAME
  THEN IF frame_index = AVERAGE_COMPUTE_FRAME + 1
       THEN Difference(current_value)
       ELSE U16(sigma_frame + Difference(current_value))
  ELSE IF ~sigma_normalized
          /\ frame_index = SIGMA_COMPUTE_FRAME + AVERAGE_COMPUTE_FRAME
  THEN SigmaFinalize
  ELSE sigma_frame

\* the frame belongs to an averaging phase: its raw sample is accumulated
Averaging == ~average_computed /\ frame_index < AVERAGE_COMPUTE_FRAME

\* the calibration state of one cell after normalize, and what skel_poll
\* does once normalize has returned: the three tests, input_mt_sync_frame
\* and input_sync, "dev->frame_index++"
AfterNormalize(current_value) ==
  /\ average_frame' = NormalizeAverage(current_value)
  /\ sigma_frame' = NormalizeSigma(current_value)
  /\ phase_sum' = IF Averaging THEN phase_sum + current_value ELSE 0
  /\ phase_frames' = IF Averaging THEN phase_frames + 1 ELSE 0
  /\ sigma_normalized' = PollSigma
  /\ average_computed' = PollAverage
  /\ frame_index' = PollFrameIndex
  /\ cycle' = IF frame_index > CALIBRATE_EVERY THEN cycle + 1 ELSE cycle
  /\ sink' = <<"mt_sync_frame", "sync">>

\* usb_bulk_msg returns result; on success the frame, in which the raw
\* sample of every cell is current_value, is processed.  In steady state the
\* frame is that of a panel at rest: every cell delivers its average, every
\* score is 0 and the score buffers stay as they are.
skel_poll_done(result, current_value) ==
  /\ poll_busy /\ ~scanning
  /\ poll_busy' = FALSE
  /\ IF result < 0
     THEN UNCHANGED calVars
     ELSE /\ sigma_normalized /\ average_computed
               => /\ Difference(current_value) = 0
                  /\ score_frame = NoScores
                  /\ score_frame_adjacent = NoScores
                  /\ score_last_frame_adjacent = NoScores
          /\ AfterNormalize(current_value)
          /\ UNCHANGED <<touch_contacts, contact_index, scanning, cells,
                         opened, grown, reported, scoreVars, lockVars>>
  /\ UNCHANGED <<sessVars, semVars, io_mutex, errors, ongoing_read, bufVars,
                 urbVars, writes, registered, pc, fopen, userVars, rv, last,
                 ctlVars, ghostVars, uaf>>

(***************************************************************************)
(* normalize in steady state, one triggered cell at a time: the contacts.  *)
(***************************************************************************)
\* the cell lies in the dilated box of the contact
InBox(contact, i, j) ==
  /\ j >= contact.x - 2 /\ j < contact.x + contact.w + 3
  /\ i >= contact.y - 2 /\ i < contact.y + contact.h + 3

\* "for(m=0;m<contact_index;m++)": the slots the cell is compared with
Searched(index) == 0..(index - 1)

\* contact_match_index
Match(contacts, index, i, j) ==
  LET Boxes == {m \in Searched(index) : InBox(contacts[m], i, j)}
  IN IF Boxes = {} THEN -1
     ELSE CHOOSE m \in Boxes : \A n \in Boxes : m <= n

\* the matched contact grown to reach the cell
Grow(contact, i, j) ==
  [contact EXCEPT
     !.w = IF j - contact.x + 1 > contact.w THEN j - contact.x + 1 ELSE @,
     !.h = IF i - contact.y + 1 > contact.h THEN i - contact.y + 1 ELSE @]

\* a loop without "if(contact_index < MAX_CONTACTS)"
RoomAlways(index) == TRUE

\* "if(contact_index < MAX_CONTACTS)"
Room(index) == index < MAX_CONTACTS

\* what the loop body does with the triggered cell (i, j): the contacts and
\* contact_index it leaves
ExtractCell(contacts, index, i, j) ==
  IF ~Room(index)
  THEN [touch_contacts |-> contacts, contact_index |-> index]
  ELSE IF Match(contacts, index, i, j) > -1
  THEN [touch_contacts |->
          [contacts EXCEPT ![Match(contacts, index, i, j)] = Grow(@, i, j)],
        contact_index |-> index]
  ELSE [touch_contacts |->
          [contacts EXCEPT ![index + 1] = [x |-> j, y |-> i, h |-> 1, w |-> 1]],
        contact_index |-> index + 1]

\* the loop run over the first n of the triggered cells
RECURSIVE ExtractCells(_, _, _, _)
ExtractCells(contacts, index, triggered, n) ==
  IF n = 0 THEN [touch_contacts |-> contacts, contact_index |-> index]
  ELSE LET before == ExtractCells(contacts, index, triggered, n - 1)
       IN ExtractCell(before.touch_contacts, before.contact_index,
                      triggered[n][1], triggered[n][2])

\* the cells follow one another row by row
Before(a, b) == a[1] < b[1] \/ (a[1] = b[1] /\ a[2] < b[2])

\* the frame has been read: normalize starts its loop with contact_index 0
normalize_begin ==
  /\ poll_busy /\ ~scanning
  /\ sigma_normalized /\ average_computed
  /\ scanning' = TRUE
  /\ contact_index' = 0
  /\ UNCHANGED <<sessVars, semVars, io_mutex, errors, ongoing_read, bufVars,
                 urbVars, writes, pollVars, frame_index, sigma_normalized,
                 average_computed, cycle, cellVars, touch_contacts, cells,
                 opened, grown, reported, sink, scoreVars, lockVars, pc, fopen,
                 userVars, rv, last, ctlVars, ghostVars, uaf>>

\* the loop reaches the next triggered cell, (i, j)
normalize_cell(i, j) ==
  /\ scanning
  /\ IF cells = <<>> THEN TRUE ELSE Before(cells[Len(cells)], <<i, j>>)
  /\ cells' = Append(cells, <<i, j>>)
  /\ touch_contacts' =
       ExtractCell(touch_contacts, contact_index, i, j).touch_contacts
  /\ contact_index' =
       ExtractCell(touch_contacts, contact_index, i, j).contact_index
  /\ opened' = IF contact_index' > contact_index
               THEN Append(opened, contact_index') ELSE opened
  /\ grown' = IF Room(contact_index)
                 /\ Match(touch_contacts, contact_index, i, j) > -1
              THEN grown \cup {Match(touch_contacts, contact_index, i, j)}
              ELSE grown
  /\ UNCHANGED <<sessVars, semVars, io_mutex, errors, ongoing_read, bufVars,
                 urbVars, writes, pollVars, frame_index, sigma_normalized,
                 average_computed, cycle, cellVars, scanning, reported, sink,
                 scoreVars, lockVars, pc, fopen, userVars, rv, last, ctlVars,
                 ghostVars,
                 uaf>>

\* what normalize prints after the loop: slots 0 .. contact_index - 1
Report(contacts, index) == [m \in 1..index |-> contacts[m - 1]]

\* the loop is over: normalize prints the contacts and returns, and skel_poll
\* finishes the tick
normalize_end ==
  /\ scanning
  /\ scanning' = FALSE
  /\ poll_busy' = FALSE
  /\ reported' = Report(touch_contacts, contact_index)
  /\ AfterNormalize(0)
  /\ UNCHANGED <<sessVars, semVars, io_mutex, errors, ongoing_read, bufVars,
                 urbVars, writes, registered, touch_contacts, contact_index,
                 cells, opened, grown, scoreVars, lockVars, pc, fopen,
                 userVars, rv,
                 last, ctlVars, ghostVars, uaf>>

(***************************************************************************)
(* normalize in steady state, a whole frame: the scores.                   *)
(***************************************************************************)
\* "index", reduced modulo the size of the matrix
Index(i, j) == (j + i * Side + Side + Side * BLOB_LINE_OFFSET) % (Side * Side)

\* "adj_index", which is not reduced
AdjIndex(i, j) == j + i * Side + Side + Side * BLOB_LINE_OFFSET

\* current_frame when the cells of up are raised and the others are at rest
RawFrame(up) ==
  [index \in Buffer |->
     IF \E c \in up : Index(c[1], c[2]) = index THEN UCHAR_MAX
     ELSE average_frame]

\* "for(k=-2;k<1;k++) for(l=-2;l<1;l++)"
Offsets == {<<k, l>> : k \in -2..0, l \in -2..0}

\* "if(l+j>0 && k+i>0)"
Inside(i, j, o) == o[2] + j > 0 /\ o[1] + i > 0

\* what the two inner loops add up for cell (i, j)
RECURSIVE AddUp(_, _)
AddUp(scores, indices) ==
  IF indices = {} THEN 0
  ELSE LET index == CHOOSE n \in indices : TRUE
       IN scores[index] + AddUp(scores, indices \ {index})

NeighbourSum(scores, i, j) ==
  AddUp(scores, {AdjIndex(i + o[1], j + o[2]) :
                   o \in {q \in Offsets : Inside(i, j, q)}})

\* the loop body for cell (i, j) of the frame raw.  A write below index 0
\* lands outside the buffer, in memory the model does not follow.
ScoreCell(st, raw, i, j) ==
  LET index == Index(i, j)
      scores == [st.score_frame EXCEPT
                   ![index] = Difference(raw[index]) \div sigma_frame]
      sum == NeighbourSum(scores, i, j)
      target == index - (Side + 1)
      adds == \E o \in Offsets : Inside(i, j, o)
      zeroed == [st.score_frame_adjacent EXCEPT ![index] = 0]
      added == IF adds /\ target >= 0
               THEN [zeroed EXCEPT ![target] = U16(@ + sum)] ELSE zeroed
      adjacent == [added EXCEPT
                     ![index] = (@ + st.score_last_frame_adjacent[index])
                                   \div 2]
      cell_triggered == adjacent[index] > SIGMA_THRESHOLD
      found == IF cell_triggered
               THEN ExtractCell(st.touch_contacts, st.contact_index, i, j)
               ELSE [touch_contacts |-> st.touch_contacts,
                     contact_index |-> st.contact_index]
  IN [score_frame |-> scores,
      score_frame_adjacent |-> adjacent,
      score_last_frame_adjacent |-> adjacent,
      smoothed |-> [st.smoothed EXCEPT ![index] = adjacent[index]],
      touch_contacts |-> found.touch_contacts,
      contact_index |-> found.contact_index,
      cells |-> IF cell_triggered THEN Append(st.cells, <<i, j>>)
                ELSE st.cells,
      underrun |-> st.underrun \/ (adds /\ target < 0)]

\* the loop over the first n cells, row by row
RECURSIVE ScoreCells(_, _, _)
ScoreCells(st, raw, n) ==
  IF n = 0 THEN st
  ELSE ScoreCell(ScoreCells(st, raw, n - 1), raw,
                 (n - 1) \div Side, (n - 1) % Side)

\* normalize over the whole frame
ScoreFrame(raw) ==
  ScoreCells([score_frame |-> score_frame,
              score_frame_adjacent |-> score_frame_adjacent,
              score_last_frame_adjacent |-> score_last_frame_adjacent,
              smoothed |-> smoothed,
              touch_contacts |-> touch_contacts,
              contact_index |-> 0,
              cells |-> <<>>,
              underrun |-> underrun], raw, Side * Side)

\* usb_bulk_msg succeeds in steady state with a frame in which the cells of
\* up are raised: normalize scores it, and skel_poll finishes the tick
skel_poll_frame(up) ==
  /\ poll_busy /\ ~scanning
  /\ sigma_normalized /\ average_computed
  /\ poll_busy' = FALSE
  /\ raised' = up
  /\ LET st == ScoreFrame(RawFrame(up))
     IN /\ score_frame' = st.score_frame
        /\ score_frame_adjacent' = st.score_frame_adjacent
        /\ score_last_frame_adjacent' = st.score_last_frame_adjacent
        /\ smoothed' = st.smoothed
        /\ touch_contacts' = st.touch_contacts
        /\ contact_index' = st.contact_index
        /\ cells' = st.cells
        /\ underrun' = st.underrun
        /\ reported' = Report(st.touch_contacts, st.contact_index)
  /\ AfterNormalize(average_frame)
  /\ UNCHANGED <<sessVars, semVars, io_mutex, errors, ongoing_read, bufVars,
                 urbVars, writes, registered, scanning, opened, grown, cell,
                 lockVars,
                 pc, fopen, userVars, rv, last, ctlVars, ghostVars, uaf>>

(***************************************************************************)
(* normalize's loops over the 64 x 64 cells: the indices of a cell.        *)
(***************************************************************************)
\* "index" of cell (i, j)
CellIndex(i, j) == (j + i * ROWS + ROWS + ROWS * BLOB_LINE_OFFSET) % MATRIX

\* "adj_index" for the offsets the steady-state loops let through
CellSources(i, j) ==
  {(o[2] + j) + (o[1] + i) * ROWS + ROWS + ROWS * BLOB_LINE_OFFSET :
     o \in {q \in Offsets : Inside(i, j, q)}}

\* the index of "score_frame_adjacent[index-(65)] += score", when the loops
\* let an offset through
CellTargets(i, j) ==
  IF \E o \in Offsets : Inside(i, j, o) THEN {CellIndex(i, j) - UP_LEFT}
  ELSE {}

\* every index the loop body uses for cell (i, j), whatever the phase
CellIndices(i, j) ==
  {CellIndex(i, j)} \cup CellSources(i, j) \cup CellTargets(i, j)

\* the loops move on to the next cell, and past the last to the next frame
normalize_next ==
  /\ cell' = IF cell[2] < ROWS - 1 THEN <<cell[1], cell[2] + 1>>
             ELSE IF cell[1] < ROWS - 1 THEN <<cell[1] + 1, 0>>
             ELSE <<0, 0>>
  /\ UNCHANGED <<sessVars, semVars, io_mutex, errors, ongoing_read, bufVars,
                 urbVars, writes, pollVars, frame_index, sigma_normalized,
                 average_computed, cycle, cellVars, blobVars, score_frame,
                 score_frame_adjacent, score_last_frame_adjacent, smoothed,
                 raised, underrun, lockVars, pc, fopen, userVars, rv, last,
                 ctlVars,
                 ghostVars, uaf>>

(***************************************************************************)
(* The specifications: the channel with a bounded number of calls, the    *)
(* write side alone, and the acquisition loop alone: over a panel at rest  *)
(* (PollSpec), through the calibration of a cell (CalSpec), and in steady  *)
(* state for given triggered cells (BlobSpec) and for given raised cells   *)
(* of a small matrix (ScoreSpec); the calibration over extreme samples     *)
(* (WrapSpec), normalize's loops over the 64 x 64 cells (IndexSpec), the   *)
(* channel beside the first ticks of the loop (ShareSpec) and the lock     *)
(* operations of the handlers (LockSpec).                                  *)
(***************************************************************************)
UserStep(p) ==
  \/ skel_open(p)
  \/ skel_release(p)
  \/ \E nb \in BOOLEAN : \E n \in 0..MaxCount : skel_read(p, nb, n)
  \/ skel_read_lock(p)
  \/ skel_read_lock_intr(p)
  \/ skel_read_retry(p)
  \/ skel_read_wait(p)
  \/ skel_read_wait_intr(p)
  \/ skel_read_errors(p)
  \/ skel_read_clear(p)
  \/ skel_read_buffer(p)
  \/ \E nb \in BOOLEAN : \E n \in 0..1 : skel_write(p, nb, n)
  \/ skel_write_errors(p)
  \/ skel_write_submit(p)
  \/ skel_flush(p)
  \/ skel_flush_kill(p)
  \/ skel_flush_drained(p)
  \/ skel_flush_errors(p)

CoreStep ==
  \/ skel_pre_reset
  \/ skel_pre_reset_kill
  \/ skel_pre_reset_drained
  \/ skel_post_reset
  \/ skel_suspend
  \/ skel_suspend_kill
  \/ skel_suspend_drained
  \/ skel_disconnect
  \/ skel_disconnect_lock
  \/ skel_disconnect_kill
  \/ skel_disconnect_put

Next ==
  \/ \E p \in Procs : UserStep(p)
  \/ CoreStep
  \/ ReadComplete
  \/ WriteComplete

Spec == Init /\ [][Next]_vars

\* the write side alone, with any number of calls
WriteInit == Probed /\ budget = -1

WriteStep(p) ==
  \/ skel_open(p)
  \/ skel_release(p)
  \/ \E nb \in BOOLEAN : \E n \in 0..1 : skel_write(p, nb, n)
  \/ skel_write_intr(p)
  \/ skel_write_errors(p)
  \/ skel_write_submit(p)

WriteNext ==
  \/ \E p \in Procs : WriteStep(p)
  \/ WriteComplete
  \/ skel_disconnect
  \/ skel_disconnect_lock
  \/ skel_disconnect_kill
  \/ skel_disconnect_put

WriteSpec == WriteInit /\ [][WriteNext]_vars

\* the transport completes every transfer it was given, and a writer that
\* holds a slot is scheduled
WriteFairness ==
  /\ WF_vars(WriteComplete)
  /\ \A p \in Procs : WF_vars(skel_write_errors(p))
  /\ \A p \in Procs : WF_vars(skel_write_submit(p))

FairSpec == WriteSpec /\ WriteFairness

\* the acquisition loop alone, followed through MaxCycles recalibrations
\* the acquisition loop over an idle panel: every raw sample is 0
PollNext ==
  \/ skel_poll
  \/ \E result \in {ETIMEDOUT, 0} : skel_poll_done(result, 0)
  \/ skel_disconnect
  \/ skel_disconnect_lock
  \/ skel_disconnect_put

PollSpec == Init /\ [][PollNext]_vars

\* the acquisition loop with the raw samples of a calibration, after which
\* the panel is at rest
Samples == IF sigma_normalized /\ average_computed THEN {average_frame}
           ELSE {0, MaxSample}

\* the tick ends, with one of the samples if the transfer succeeded
skel_poll_sample(result) ==
  \E current_value \in Samples : skel_poll_done(result, current_value)

CalNext ==
  \/ skel_poll
  \/ \E result \in {ETIMEDOUT, 0} : skel_poll_sample(result)

CalSpec == Init /\ [][CalNext]_vars

\* the acquisition loop with the extreme raw samples: a cell holds 0 or the
\* largest sample through an averaging phase and through a sigma phase, and
\* is at rest once calibrated.  The two frames that divide read no sample.
Extremes == {0, UCHAR_MAX}

HeldSamples ==
  IF sigma_normalized /\ average_computed THEN {average_frame}
  ELSE IF Averaging
  THEN IF phase_frames = 0 THEN Extremes
       ELSE {v \in Extremes : v * phase_frames = phase_sum}
  ELSE IF ~average_computed THEN {0}
  ELSE IF frame_index = AVERAGE_COMPUTE_FRAME + 1 THEN Extremes
  ELSE IF frame_index < SIGMA_COMPUTE_FRAME + AVERAGE_COMPUTE_FRAME
  THEN {v \in Extremes :
          Difference(v) * (frame_index - AVERAGE_COMPUTE_FRAME - 1)
             = sigma_frame}
  ELSE {0}

\* the tick ends, with a held sample if the transfer succeeded
skel_poll_held(result) ==
  \E current_value \in HeldSamples : skel_poll_done(result, current_value)

WrapNext ==
  \/ skel_poll
  \/ \E result \in {ETIMEDOUT, 0} : skel_poll_held(result)

WrapSpec == Init /\ [][WrapNext]_vars

\* the acquisition loop in steady state, right after the first calibration
SteadyFrame == SIGMA_COMPUTE_FRAME + AVERAGE_COMPUTE_FRAME + 1

Steady ==
  /\ kref = 1
  /\ deleted = FALSE
  /\ interface = TRUE
  /\ intfdata = TRUE
  /\ limit_sem = WRITES_IN_FLIGHT
  /\ sem_wait = <<>>
  /\ io_mutex = NoOwner
  /\ errors = 0
  /\ ongoing_read = FALSE
  /\ bulk_in_filled = 0
  /\ bulk_in_copied = 0
  /\ read_urb = 0
  /\ read_urb_len = 0
  /\ writes = 0
  /\ registered = TRUE
  /\ poll_busy = FALSE
  /\ frame_index = SteadyFrame
  /\ sigma_normalized = TRUE
  /\ average_computed = TRUE
  /\ cycle = 0
  /\ average_frame = 0
  /\ sigma_frame = 1
  /\ phase_sum = 0
  /\ phase_frames = 0
  /\ touch_contacts = [m \in 0..MAX_CONTACTS |-> NoContact]
  /\ contact_index = 0
  /\ scanning = FALSE
  /\ cells = <<>>
  /\ opened = <<>>
  /\ grown = {}
  /\ reported = <<>>
  /\ sink = <<"mt_sync_frame", "sync">>
  /\ score_frame = NoScores
  /\ score_frame_adjacent = NoScores
  /\ score_last_frame_adjacent = NoScores
  /\ smoothed = NoScores
  /\ raised = {}
  /\ underrun = FALSE
  /\ cell = <<0, 0>>
  /\ at = [t \in Threads |-> "idle"]
  /\ err_lock = NoOwner
  /\ pc = [p \in Procs |-> "idle"]
  /\ fopen = [p \in Procs |-> FALSE]
  /\ nonblock = [p \in Procs |-> FALSE]
  /\ count = [p \in Procs |-> 0]
  /\ rv = [p \in Procs |-> 0]
  /\ last = NoCall
  /\ late = [p \in Procs |-> FALSE]
  /\ budget = MaxCalls
  /\ ctl = "idle"
  /\ ctl_ops = 0
  /\ held_rep = {}
  /\ held_old = {}
  /\ uaf = FALSE

\* the cells that may be triggered: three near the origin, and a row of
\* cells too far apart to share a dilated box, with one neighbour
Corner == {<<0, 1>>, <<0, 2>>, <<1, 1>>}
Row == {<<8, 5 * n>> : n \in 0..MAX_CONTACTS}
Candidates == Corner \cup Row \cup {<<8, 1>>}

\* the cells of Row are triggered from the left, without a gap
Usable(c) ==
  c \in Row /\ c[2] > 0 =>
    \E n \in 1..Len(cells) : cells[n] = <<8, c[2] - 5>>

\* a tick of the frames that are followed
skel_poll_steady == frame_index < SteadyFrame + MaxTicks /\ skel_poll

\* the next triggered cell is one of the candidates
normalize_candidate(c) == Usable(c) /\ normalize_cell(c[1], c[2])

BlobNext ==
  \/ skel_poll_steady
  \/ skel_poll_done(ETIMEDOUT, 0)
  \/ normalize_begin
  \/ \E c \in Candidates : normalize_candidate(c)
  \/ normalize_end

BlobSpec == Steady /\ [][BlobNext]_vars

\* the cells that may be raised: a pad of two by two
Pad == {<<1, 1>>, <<1, 2>>, <<2, 1>>, <<2, 2>>}

ScoreNext ==
  \/ skel_poll_steady
  \/ skel_poll_done(ETIMEDOUT, 0)
  \/ \E up \in SUBSET Pad : skel_poll_frame(up)

ScoreSpec == Steady /\ [][ScoreNext]_vars

\* normalize's loops alone, in steady state
IndexNext == normalize_next

IndexSpec == Steady /\ [][IndexNext]_vars

(***************************************************************************)
(* The lock operations of the handlers, in program order.  A node is a     *)
(* lock operation or the statements between two of them; "next" are the    *)
(* nodes the code can go on to.                                            *)
(***************************************************************************)
Node(op, next) == [op |-> op, next |-> next]

\* skel_read's "exit:" label without its mutex_unlock
ReadExitHolding == "r_return"

\* skel_read's "exit:" label: mutex_unlock(&dev->io_mutex), then return
ReadExit == "r_unlock"

Code ==
  [ \* skel_release
    rel_lock    |-> Node("mutex_lock", {"rel_pm"}),
    rel_pm      |-> Node("plain", {"rel_unlock"}),
    rel_unlock  |-> Node("mutex_unlock", {"rel_put"}),
    rel_put     |-> Node("return", {"idle"}),
    \* skel_flush
    f_lock      |-> Node("mutex_lock", {"f_drain"}),
    f_drain     |-> Node("plain", {"f_spin"}),
    f_spin      |-> Node("spin_lock", {"f_errors"}),
    f_errors    |-> Node("plain", {"f_unspin"}),
    f_unspin    |-> Node("spin_unlock", {"f_unlock"}),
    f_unlock    |-> Node("mutex_unlock", {"f_return"}),
    f_return    |-> Node("return", {"idle"}),
    \* skel_read
    r_lock      |-> Node("mutex_lock_interruptible", {"r_iface"}),
    r_iface     |-> Node("plain", {ReadExit, "r_retry"}),
    r_retry     |-> Node("spin_lock", {"r_ongoing"}),
    r_ongoing   |-> Node("plain", {"r_unspin"}),
    r_unspin    |-> Node("spin_unlock", {"r_test"}),
    r_test      |-> Node("plain", {ReadExit, "r_wait", "r_errors"}),
    r_wait      |-> Node("plain", {ReadExit, "r_errors"}),
    r_errors    |-> Node("plain", {ReadExit, "r_buffer"}),
    r_buffer    |-> Node("plain", {"io_fill", "r_copy"}),
    r_copy      |-> Node("plain", {"io_fill", ReadExit}),
    r_unlock    |-> Node("mutex_unlock", {"r_return"}),
    r_return    |-> Node("return", {"idle"}),
    \* skel_do_read_io, which returns into skel_read: to "retry" or "exit"
    io_fill     |-> Node("plain", {"io_spin"}),
    io_spin     |-> Node("spin_lock", {"io_flag"}),
    io_flag     |-> Node("plain", {"io_unspin"}),
    io_unspin   |-> Node("spin_unlock", {"io_submit"}),
    io_submit   |-> Node("plain", {"io_fail", "io_done"}),
    io_fail     |-> Node("spin_lock", {"io_clear"}),
    io_clear    |-> Node("plain", {"io_failed"}),
    io_failed   |-> Node("spin_unlock", {"io_done"}),
    io_done     |-> Node("plain", {ReadExit, "r_retry"}),
    \* skel_write
    w_enter     |-> Node("plain", {"w_return", "w_spin"}),
    w_spin      |-> Node("spin_lock", {"w_errors"}),
    w_errors    |-> Node("plain", {"w_unspin"}),
    w_unspin    |-> Node("spin_unlock", {"w_alloc"}),
    w_alloc     |-> Node("plain", {"w_error", "w_lock"}),
    w_lock      |-> Node("mutex_lock", {"w_iface"}),
    w_iface     |-> Node("plain", {"w_gone", "w_submit"}),
    w_gone      |-> Node("mutex_unlock", {"w_error"}),
    w_submit    |-> Node("plain", {"w_unlock"}),
    w_unlock    |-> Node("mutex_unlock", {"w_done"}),
    w_done      |-> Node("plain", {"w_error", "w_return"}),
    w_error     |-> Node("plain", {"w_return"}),
    w_return    |-> Node("return", {"idle"}),
    \* skel_read_bulk_callback
    rc_spin     |-> Node("spin_lock", {"rc_status"}),
    rc_status   |-> Node("plain", {"rc_unspin"}),
    rc_unspin   |-> Node("spin_unlock", {"rc_wake"}),
    rc_wake     |-> Node("return", {"idle"}),
    \* skel_write_bulk_callback
    wc_status   |-> Node("plain", {"wc_spin", "wc_free"}),
    wc_spin     |-> Node("spin_lock", {"wc_errors"}),
    wc_errors   |-> Node("plain", {"wc_unspin"}),
    wc_unspin   |-> Node("spin_unlock", {"wc_free"}),
    wc_free     |-> Node("return", {"idle"}),
    \* skel_disconnect
    d_enter     |-> Node("plain", {"d_lock"}),
    d_lock      |-> Node("mutex_lock", {"d_iface"}),
    d_iface     |-> Node("plain", {"d_unlock"}),
    d_unlock    |-> Node("mutex_unlock", {"d_kill"}),
    d_kill      |-> Node("plain", {"d_return"}),
    d_return    |-> Node("return", {"idle"}),
    \* skel_suspend
    s_drain     |-> Node("return", {"idle"}),
    \* skel_pre_reset, which the USB core follows with skel_post_reset
    pre_lock    |-> Node("mutex_lock", {"pre_drain"}),
    pre_drain   |-> Node("plain", {"pre_return"}),
    pre_return  |-> Node("return", {"post_errors"}),
    \* skel_post_reset
    post_errors |-> Node("plain", {"post_unlock"}),
    post_unlock |-> Node("mutex_unlock", {"post_return"}),
    post_return |-> Node("return", {"idle"}),
    idle        |-> Node("idle", {}) ]

\* the handlers a thread can enter: the file operations, the USB core's
\* calls, the completion callbacks
Entry(t) ==
  IF t \in Procs THEN {"rel_lock", "f_lock", "r_lock", "w_enter"}
  ELSE IF t = Ctl THEN {"d_enter", "s_drain", "pre_lock"}
  ELSE {"rc_spin", "wc_status"}

\* what the thread is about to do
Op(t) == Code[at[t]].op

Acquiring == {"mutex_lock", "mutex_lock_interruptible"}

LockFrame ==
  UNCHANGED <<sessVars, semVars, errors, ongoing_read, bufVars, urbVars,
              writes, pollVars, frame_index, sigma_normalized,
              average_computed, cycle, cellVars, blobVars, scoreVars, pc,
              fopen, userVars, rv, last, ctlVars, ghostVars, uaf>>

\* the thread enters a handler
Call(t) ==
  /\ at[t] = "idle"
  /\ \E entry \in Entry(t) : at' = [at EXCEPT ![t] = entry]
  /\ UNCHANGED <<io_mutex, err_lock>>
  /\ LockFrame

\* statements that take and release no lock, and the return of a handler
Statement(t) ==
  /\ Op(t) \in {"plain", "return"}
  /\ \E n \in Code[at[t]].next : at' = [at EXCEPT ![t] = n]
  /\ UNCHANGED <<io_mutex, err_lock>>
  /\ LockFrame

\* mutex_lock(&dev->io_mutex), mutex_lock_interruptible(&dev->io_mutex)
mutex_lock(t) ==
  /\ Op(t) \in Acquiring
  /\ io_mutex = NoOwner
  /\ io_mutex' = t
  /\ \E n \in Code[at[t]].next : at' = [at EXCEPT ![t] = n]
  /\ UNCHANGED err_lock
  /\ LockFrame

\* mutex_lock_interruptible ends with a signal: "if (rv < 0) return rv;"
mutex_lock_intr(t) ==
  /\ Op(t) = "mutex_lock_interruptible"
  /\ at' = [at EXCEPT ![t] = "r_return"]
  /\ UNCHANGED <<io_mutex, err_lock>>
  /\ LockFrame

\* mutex_unlock(&dev->io_mutex)
mutex_unlock(t) ==
  /\ Op(t) = "mutex_unlock"
  /\ io_mutex' = NoOwner
  /\ \E n \in Code[at[t]].next : at' = [at EXCEPT ![t] = n]
  /\ UNCHANGED err_lock
  /\ LockFrame

\* spin_lock(&dev->err_lock), spin_lock_irq(&dev->err_lock)
spin_lock(t) ==
  /\ Op(t) = "spin_lock"
  /\ err_lock = NoOwner
  /\ err_lock' = t
  /\ \E n \in Code[at[t]].next : at' = [at EXCEPT ![t] = n]
  /\ UNCHANGED io_mutex
  /\ LockFrame

\* spin_unlock(&dev->err_lock), spin_unlock_irq(&dev->err_lock)
spin_unlock(t) ==
  /\ Op(t) = "spin_unlock"
  /\ err_lock' = NoOwner
  /\ \E n \in Code[at[t]].next : at' = [at EXCEPT ![t] = n]
  /\ UNCHANGED io_mutex
  /\ LockFrame

\* the handlers' lock operations, interleaved
LockNext ==
  \E t \in Threads :
    \/ Call(t)
    \/ Statement(t)
    \/ mutex_lock(t)
    \/ mutex_lock_intr(t)
    \/ mutex_unlock(t)
    \/ spin_lock(t)
    \/ spin_unlock(t)

LockSpec == Init /\ [][LockNext]_vars

\* the first ticks of the acquisition loop
skel_poll_tick == frame_index < MaxTicks /\ skel_poll

\* the channel and the first ticks of the acquisition loop side by side,
\* over a panel at rest
ShareNext ==
  \/ \E p \in Procs : UserStep(p)
  \/ CoreStep
  \/ ReadComplete
  \/ WriteComplete
  \/ skel_poll_tick
  \/ \E result \in {ETIMEDOUT, 0} : skel_poll_done(result, 0)

ShareInit == Probed /\ budget = ShareCalls

ShareSpec == ShareInit /\ [][ShareNext]_vars

(***************************************************************************)
(* The pending error.                                                      *)
(***************************************************************************)
\* C1: a recorded fault is returned by exactly one call and cleared by that
\* call: a read that returns a fault does not return one that another call
\* has returned already, and does not clear a fault that nobody returned.
ErrorReportedOnce ==
  [][\A p \in Procs :
       pc[p] = "r_clr" /\ pc'[p] = "idle"
         => p \notin held_rep /\ (p \in held_old => errors = 0)]_vars

\* C2: a transfer that completes with a status of deliberate cancellation
\* leaves no pending error, so no call returns an error for it.
CancelNotRecorded ==
  /\ errors \notin CancelStatus
  /\ \A p \in Procs : rv[p] \notin CancelStatus

(***************************************************************************)
(* The read transfer.                                                      *)
(***************************************************************************)
\* C3: at most one read transfer is outstanding, the outstanding flag is
\* set while it is, and no read transfer is submitted while the flag is set.
OneReadTransfer ==
  /\ [](read_urb <= 1 /\ (read_urb = 1 => ongoing_read))
  /\ [][read_urb' > read_urb => ~ongoing_read]_vars

\* a reader meets the transfer that an earlier non-blocking read left behind
SecondReaderMeetsTransfer ==
  /\ read_urb = 1 /\ ongoing_read
  /\ last.call = "read" /\ last.ret = EAGAIN
  /\ \E p \in Procs : pc[p] = "r_retry"

(***************************************************************************)
(* The write gate.                                                         *)
(***************************************************************************)
\* writers that hold a slot of limit_sem and have not submitted or given up
SlotHolders == Cardinality({p \in Procs : pc[p] \in {"w_err", "w_lock"}})

\* C4: at most WRITES_IN_FLIGHT write transfers are in flight, and the free
\* slots, the slots of writers in progress and the transfers in flight add
\* up to WRITES_IN_FLIGHT: every slot taken is released exactly once.
SlotsAccounted ==
  /\ writes <= WRITES_IN_FLIGHT
  /\ limit_sem >= 0
  /\ limit_sem + SlotHolders + writes = WRITES_IN_FLIGHT

\* the gate is full: the write that took the last slot has been submitted
GateFull ==
  /\ writes = WRITES_IN_FLIGHT /\ limit_sem = 0
  /\ last.call = "write" /\ last.ret > 0

\* the variables of the driver, without the record of the last return
driverVars == <<sessVars, semVars, io_mutex, errors, ongoing_read, bufVars,
                urbVars, writes, pollVars, calVars, pc, fopen>>

NonBlockingReadNeverWaits ==
  \A p \in Procs :
    pc[p] = "r_lock" /\ nonblock[p]
      => ~\E q \in Procs : io_mutex = q /\ pc[q] = "r_wait"

(***************************************************************************)
(* Teardown.                                                               *)
(***************************************************************************)
\* what a call entered after the disconnect can return besides -ENODEV
LateReadResult == {ENODEV, EINTR}
LateWriteResult == {ENODEV, EIO, EPIPE, ENOMEM, EFAULT, EAGAIN, ERESTARTSYS}

\* C7: a read or write with a non-zero count entered after teardown marked
\* the transport absent fails: a read with -ENODEV or -EINTR, a write with
\* -ENODEV, a pending or allocation error, -EAGAIN or -ERESTARTSYS; and no
\* read or write transfer is submitted while the transport is absent.
LateCallFails ==
  /\ [](last.late /\ last.ret # 0
          => /\ last.call = "read" => last.ret \in LateReadResult
             /\ last.call = "write" => last.ret \in LateWriteResult)
  /\ [][read_urb' > read_urb \/ writes' > writes => interface]_vars

\* C7 as stated: every such call returns -ENODEV (leaving aside the calls
\* that a signal, a full gate, a bad address or a failed allocation ends).
LateCallReturnsAbsent ==
  /\ last.late /\ last.call \in {"read", "write"}
  /\ last.ret \notin {0, EINTR, ERESTARTSYS, EAGAIN, EFAULT, ENOMEM}
  => last.ret = ENODEV

\* a call entered after the disconnect has returned -ENODEV
LateCallSawAbsent ==
  /\ ~interface
  /\ last.late /\ last.call \in {"read", "write"} /\ last.ret = ENODEV

\* C8: the session is destroyed only when kref is zero, and then no file
\* is open, no transfer is pending and the acquisition loop is
\* unregistered; no callback runs on a destroyed session.
DestroyedQuiescent ==
  /\ deleted => /\ kref = 0
                /\ \A p \in Procs : ~fopen[p]
                /\ read_urb = 0 /\ writes = 0
                /\ ~registered /\ ~poll_busy
  /\ ~uaf

(***************************************************************************)
(* Calibration.                                                            *)
(***************************************************************************)
\* C9: between ticks of the acquisition loop sigma_normalized implies
\* average_computed, in the first calibration and after every
\* recalibration.
VarianceImpliesAverage == sigma_normalized => average_computed

\* both are ready again after a recalibration
ReadyAfterRecalibration ==
  cycle >= 1 /\ sigma_normalized /\ average_computed

\* C10: the tick that processes frame_index = CALIBRATE_EVERY + 1 ends with
\* both flags false and frame_index equal to 0.
RecalibrationRestartsAtZero ==
  [][frame_index = CALIBRATE_EVERY + 1 /\ frame_index' # frame_index
       => frame_index' = 0 /\ ~average_computed' /\ ~sigma_normalized']_vars

\* C11: in every averaging phase, the first and each one a recalibration
\* restarts, the average accumulator of a cell holds after each accumulated
\* frame the sum of the raw samples of exactly the frames of that phase.
AverageIsPhaseSum ==
  ~average_computed /\ phase_frames >= 1 => average_frame = phase_sum

\* C12: whenever both flags are ready, so that the next frame is scored, the
\* sigma of the cell is at least 1, in every calibration cycle.
SigmaAtLeastOne == sigma_normalized /\ average_computed => sigma_frame >= 1

\* a recalibration over an idle cell ended with the clamp
SigmaClampedAfterRecalibration ==
  /\ cycle >= 1 /\ sigma_normalized /\ average_computed
  /\ average_frame = 0 /\ sigma_frame = 1

(***************************************************************************)
(* The contacts of a frame.                                                *)
(***************************************************************************)
\* the triggered cell a step of the loop visits
Visited == Len(cells') > Len(cells)
VisitedRow == cells'[Len(cells')][1]
VisitedCol == cells'[Len(cells')][2]

\* C13: normalize never reports more than MAX_CONTACTS contacts, and once
\* MAX_CONTACTS contacts exist a further triggered cell outside every
\* dilated box opens no contact and changes no contact.
ContactsCapped ==
  /\ [](contact_index <= MAX_CONTACTS /\ Len(reported) <= MAX_CONTACTS)
  /\ [][Visited /\ contact_index = MAX_CONTACTS
          /\ (\A m \in 0..MAX_CONTACTS :
                ~InBox(touch_contacts[m], VisitedRow, VisitedCol))
        => UNCHANGED <<touch_contacts, contact_index, opened, grown>>]_vars

\* the loop has passed a triggered cell with MAX_CONTACTS contacts open
CellBeyondCap ==
  /\ scanning /\ contact_index = MAX_CONTACTS
  /\ Len(opened) = MAX_CONTACTS
  /\ Len(cells) > 0 /\ cells[Len(cells)] = <<8, 5 * MAX_CONTACTS>>

\* the tick has processed its frame
FrameDone == ~poll_busy /\ sink # <<>>

\* what normalize reports for the triggered cells when the contacts are
\* as skel_probe left them
FreshReport ==
  LET fresh == ExtractCells([m \in 0..MAX_CONTACTS |-> NoContact], 0, cells,
                            Len(cells))
  IN Report(fresh.touch_contacts, fresh.contact_index)

\* C14: the contacts reported for a frame are a function of the frame's
\* triggered cells alone: whatever the contacts of earlier frames were, the
\* report is the one the same cells give from any other contact state.
ReportFromFrameAlone == FrameDone => reported = FreshReport

\* contacts sent to the input device by the tick
Emitted == {n \in 1..Len(sink) : sink[n] = "emit_contact"}

\* C16: a tick whose transfer succeeds sends every contact found to the
\* input device, one emit_contact each, and then ends the frame once; a
\* tick whose transfer fails sends nothing.
ContactsEmitted ==
  /\ FrameDone =>
       /\ Cardinality(Emitted) = contact_index
       /\ sink = [n \in 1..contact_index |-> "emit_contact"]
                    \o <<"mt_sync_frame", "sync">>
  /\ poll_busy => sink = <<>>

\* slots the tick opened a contact in
Opened == {opened[n] : n \in 1..Len(opened)}

\* C17: every contact is stored in a slot 0 .. MAX_CONTACTS - 1, the first
\* contact of a frame in slot 0, and the contacts reported for the frame are
\* the ones the frame opened or grew.
ContactsInSlots ==
  /\ Opened \subseteq 0..(MAX_CONTACTS - 1)
  /\ opened # <<>> => opened[1] = 0
  /\ FrameDone => {m - 1 : m \in 1..Len(reported)} = Opened \cup grown

\* contacts of the frame whose dilated box holds the visited cell
Holders == {n \in 1..Len(opened) :
              InBox(touch_contacts[opened[n]], VisitedRow, VisitedCol)}
FirstHolder == opened[CHOOSE n \in Holders : \A k \in Holders : n <= k]

\* C18: a triggered cell inside the dilated box of a contact opened in the
\* frame grows the first such contact and opens none; any other triggered
\* cell opens exactly one contact (x = j, y = i, w = 1, h = 1) while fewer
\* than MAX_CONTACTS are open.
CellMergedOrOpened ==
  [][Visited =>
       IF Holders # {}
       THEN /\ opened' = opened
            /\ touch_contacts' =
                 [touch_contacts EXCEPT
                    ![FirstHolder] = Grow(@, VisitedRow, VisitedCol)]
       ELSE IF Len(opened) < MAX_CONTACTS
       THEN /\ Len(opened') = Len(opened) + 1
            /\ touch_contacts'[opened'[Len(opened')]] =
                 [x |-> VisitedCol, y |-> VisitedRow, h |-> 1, w |-> 1]
            /\ \A m \in Opened : touch_contacts'[m] = touch_contacts[m]
       ELSE UNCHANGED <<touch_contacts, opened>>]_vars

(***************************************************************************)
(* The scores of a frame.                                                  *)
(***************************************************************************)
\* the cells of the matrix, and the cells up and left of (i, j), itself
\* included
Matrix == {<<i, j>> : i \in 0..(Side - 1), j \in 0..(Side - 1)}
UpLeft(i, j) == {c \in Matrix : c[1] \in (i - 2)..i /\ c[2] \in (j - 2)..j}

\* the step is the end of a tick that has scored a steady-state frame
Scored ==
  /\ sigma_normalized /\ average_computed
  /\ poll_busy /\ ~poll_busy' /\ frame_index' # frame_index

\* C15: after a calibration over frames that are all zero, a frame in which
\* one cell alone is raised far above the threshold is reported as exactly
\* one contact, of one cell, at that cell.
LoneCellReported ==
  FrameDone /\ frame_index = SteadyFrame + 1 /\ Cardinality(raised) = 1
    => \E c \in raised :
         reported = <<[x |-> c[2], y |-> c[1], h |-> 1, w |-> 1]>>

\* C19: the score a steady-state frame compares with the threshold is, for
\* every cell, half the sum of the frame's own scores up and left of the
\* cell and of the cell's adjacent score of the frame before, which is
\* replaced only when the whole frame has been evaluated.
SmoothedFromThisFrame ==
  [][Scored =>
       \A c \in Matrix :
         smoothed'[Index(c[1], c[2])] =
           (AddUp(score_frame', {Index(n[1], n[2]) : n \in UpLeft(c[1], c[2])})
              + score_last_frame_adjacent[Index(c[1], c[2])]) \div 2]_vars

(***************************************************************************)
(* err_lock.                                                               *)
(***************************************************************************)
\* a step of skel_read outside spin_lock_irq(&dev->err_lock): the wait on
\* "!dev->ongoing_read", "rv = dev->errors", "dev->errors = 0"
ReadUnlocked ==
  \E p \in Procs : pc[p] \in {"r_wait", "r_err", "r_clr"} /\ pc'[p] # pc[p]

\* skel_post_reset's "dev->errors = -EPIPE", under io_mutex alone
ResetUnlocked == ctl = "in_reset" /\ ctl' = "idle"

\* C20: dev->ongoing_read and dev->errors are accessed only while err_lock
\* is held, in read, write, flush, the callbacks and post-reset: no step
\* that runs outside the lock changes either of them.
ErrLockGuards ==
  [][errors' # errors \/ ongoing_read' # ongoing_read
       => ~ReadUnlocked /\ ~ResetUnlocked]_vars

(***************************************************************************)
(* The width of the accumulators.                                          *)
(***************************************************************************)
\* the step is a tick that adds a raw sample to the average accumulator
AverageAdds ==
  /\ Averaging /\ frame_index > 0
  /\ poll_busy /\ ~poll_busy' /\ frame_index' # frame_index

\* the step is a tick that adds a deviation to the sigma accumulator
SigmaAdds ==
  /\ average_computed /\ ~sigma_normalized
  /\ frame_index > AVERAGE_COMPUTE_FRAME + 1
  /\ frame_index < SIGMA_COMPUTE_FRAME + AVERAGE_COMPUTE_FRAME
  /\ poll_busy /\ ~poll_busy' /\ frame_index' # frame_index

\* C24: with samples of eight bits no accumulator of sixteen bits wraps, in
\* the first calibration and in every recalibration: an addition never
\* leaves less in the average or in the sigma accumulator than it held.
AccumulatorsNeverWrap ==
  [][/\ AverageAdds => average_frame' >= average_frame
     /\ SigmaAdds => sigma_frame' >= sigma_frame]_vars

\* a recalibration has filled the average accumulator with the largest sum
LargestSumAfterRecalibration ==
  /\ cycle >= 1 /\ ~average_computed
  /\ average_frame = UCHAR_MAX * AVERAGE_COMPUTE_FRAME

(***************************************************************************)
(* The indices of the frame buffers.                                       *)
(***************************************************************************)
\* C25: every index normalize uses for a cell of the 64 x 64 matrix lies
\* within the allocated length of the buffers, 0 .. 4159: the cell's index,
\* the source indices of its neighbourhood and the target index - 65.
IndicesInBuffer ==
  CellIndices(cell[1], cell[2]) \subseteq 0..(BULK_IN_SIZE - 1)

(***************************************************************************)
(* The transfers into the raw frame buffer.                                *)
(***************************************************************************)
\* C21: dev->bulk_in_buffer is the target of at most one transfer at a
\* time: the acquisition loop's usb_bulk_msg and the channel's read urb are
\* never in progress on it together.
OneTransferIntoBuffer == ~(poll_busy /\ read_urb > 0)

(***************************************************************************)
(* The order of the two locks.                                             *)
(***************************************************************************)
\* read, write, flush and disconnect have returned
Returns == {"r_return", "w_return", "f_return", "d_return"}

\* C22: no handler deadlocks across the two locks: no thread holds err_lock
\* while it acquires io_mutex, and skel_read, skel_write, skel_flush and
\* skel_disconnect return without io_mutex on every path that acquired it.
NoLockInversion ==
  \A t \in Threads :
    /\ err_lock = t => Op(t) \notin Acquiring
    /\ at[t] \in Returns => io_mutex # t

\* a callback holds err_lock while one reader holds io_mutex and the other
\* is acquiring it, and a call that held io_mutex has returned
LocksContended ==
  /\ err_lock = Irq
  /\ \E t \in Procs : \E u \in Procs :
       io_mutex = t /\ u # t /\ Op(u) \in Acquiring
  /\ at[Ctl] = "d_return"

(***************************************************************************)
(* The session after skel_draw_down and skel_disconnect.                   *)
(***************************************************************************)
\* skel_draw_down returns: into skel_flush, skel_pre_reset or skel_suspend
DrawnDown ==
  \/ \E p \in Procs : pc[p] = "f_drain" /\ pc'[p] = "f_errs"
  \/ ctl = "pre_drain" /\ ctl' = "in_reset"
  \/ ctl = "sus_drain" /\ ctl' = "idle"

\* skel_disconnect returns
Disconnected == ctl # "gone" /\ ctl' = "gone"

\* C23: when skel_draw_down or skel_disconnect returns, neither the read
\* transfer nor a write transfer of the session is outstanding.
QuiescentOnReturn ==
  [][DrawnDown \/ Disconnected => read_urb' = 0 /\ writes' = 0]_vars

=============================================================================
